---- MODULE Spec2Model ----
(***************************************************************************)
(* EcoPredict-AI: the validation and preprocessing pipeline of             *)
(* utils/preprocessor.py and the submission handler of app.py.             *)
(*                                                                         *)
(* Numbers are fixed-point, in thousandths (0.1 is 100, 0.005 is 5).       *)
(* A Python value is a record [kind, s, n]:                                *)
(*   kind "str"  a string s                                                *)
(*   kind "num"  a finite float or int, n thousandths                      *)
(*   kind "int"  an integer n (a label code, not scaled)                   *)
(*   kind "nan"  float('nan')                                              *)
(*   kind "inf"  an infinity of sign n                                     *)
(*   kind "none" None                                                      *)
(***************************************************************************)
EXTENDS Integers, Sequences, FiniteSets, TLC

VARIABLES
  pc,           \* position of the running script / harness
  widgets,      \* the form's widget values (app.py prediction_form)
  edits,        \* number of widget changes made by the user so far
  input_data,   \* the record dict handed to validate_input_data
  validation,   \* (is_valid, error_msg) as returned, or NoResult
  input_df,     \* the DataFrame returned by preprocess_input, or NoFrame
  input_scaled, \* what scaler.transform returned, or NoFrame
  prediction,   \* prediction_value, or NoValue
  error,        \* the exception the current run raised ("" if none)
  calls,        \* the calls made by the current run, in order
  shown,        \* what the current run has rendered
  impact_level, \* the impact label of the current run ("" if none)
  files,        \* state of LR_model.pkl, scaler.pkl and utils/preprocessor.py
  cache,        \* the st.cache_resource entry of load_models
  loads,        \* how many times the body of load_models has run
  artifacts,    \* model, scaler, models_loaded as assigned at line 44
  caller_df,    \* the DataFrame object the harness passed to preprocess_input
  input_df2,    \* what a second preprocess_input(caller_df) returned, or NoFrame
  earlier       \* observer: record and results of the previous submission

vars == <<pc, widgets, edits, input_data, validation, input_df,
          input_scaled, prediction, error, calls, shown, impact_level,
          files, cache, loads, artifacts, caller_df, input_df2, earlier>>

\* the state of the artifact loading
startup == <<files, cache, loads, artifacts>>

----------------------------------------------------------------------------
(* Python values *)

Str(x)  == [kind |-> "str",  s |-> x,  n |-> 0]
Num(x)  == [kind |-> "num",  s |-> "", n |-> x]
Code(x) == [kind |-> "int",  s |-> "", n |-> x]
NaN     == [kind |-> "nan",  s |-> "", n |-> 0]
PosInf  == [kind |-> "inf",  s |-> "", n |-> 1]
NegInf  == [kind |-> "inf",  s |-> "", n |-> -1]
None    == [kind |-> "none", s |-> "", n |-> 0]

\* a < b on Python floats: every comparison with NaN is False
FloatLt(a, b) ==
  IF a.kind = "nan" \/ b.kind = "nan" THEN FALSE
  ELSE IF a.kind = "inf" THEN a.n < 0 /\ ~(b.kind = "inf" /\ b.n < 0)
  ELSE IF b.kind = "inf" THEN b.n > 0
  ELSE a.n < b.n

\* a <= b on Python floats
FloatLe(a, b) ==
  IF a.kind = "nan" \/ b.kind = "nan" THEN FALSE
  ELSE FloatLt(a, b) \/ a = b

\* float(x) of a string: the literals Python's float() parses
FloatOfStr(x) ==
  CASE x = "0.5" -> [exc |-> "", val |-> Num(500)]
    [] x = "-1"  -> [exc |-> "", val |-> Num(-1000)]
    [] x = "nan" -> [exc |-> "", val |-> NaN]
    [] OTHER     -> [exc |-> "ValueError", val |-> None]

\* float(v): the value, or the exception raised
PyFloat(v) ==
  CASE v.kind \in {"num", "nan", "inf"} -> [exc |-> "", val |-> v]
    [] v.kind = "int"  -> [exc |-> "", val |-> Num(v.n * 1000)]
    [] v.kind = "str"  -> FloatOfStr(v.s)
    [] v.kind = "none" -> [exc |-> "TypeError", val |-> None]

----------------------------------------------------------------------------
(* Records (dict) and DataFrames.  A dict keeps its keys in insertion      *)
(* order: cols is that order, row maps each key to its value.              *)

Range(q) == {q[i] : i \in 1..Len(q)}

Dict(cols, row) == [cols |-> cols, row |-> row]

HasKey(d, k) == k \in Range(d.cols)

\* pd.DataFrame([d]): one row, the columns in the dict's key order
DataFrameOf(d) == [columns |-> d.cols, rows |-> <<d.row>>]

NoFrame  == [columns |-> <<>>, rows |-> <<>>]
NoResult == [ok |-> FALSE, msg |-> "", field |-> ""]
NoValue  == None

----------------------------------------------------------------------------
(* utils/preprocessor.py: validate_input_data *)

\* required_fields without its last entry
required_fields_NoSource ==
  << "Substance",
     "Unit",
     "Supply Chain Emission Factors without Margins",
     "Margins of Supply Chain Emission Factors" >>

required_fields ==
  << "Substance",
     "Unit",
     "Supply Chain Emission Factors without Margins",
     "Margins of Supply Chain Emission Factors",
     "Source" >>

numeric_fields ==
  << "Supply Chain Emission Factors without Margins",
     "Margins of Supply Chain Emission Factors" >>

dq_fields ==
  << "DQ ReliabilityScore of Factors without Margins",
     "DQ TemporalCorrelation of Factors without Margins",
     "DQ GeographicalCorrelation of Factors without Margins",
     "DQ TechnologicalCorrelation of Factors without Margins",
     "DQ DataCollection of Factors without Margins" >>

Pass == [ok |-> TRUE, msg |-> "Valid", field |-> ""]
Fail(m, f) == [ok |-> FALSE, msg |-> m, field |-> f]

\* one iteration of the "Check required fields" loop
CheckRequired(d, f) ==
  IF ~HasKey(d, f) THEN Fail("Missing required field", f)
  ELSE IF d.row[f].kind = "none" THEN Fail("Field cannot be None", f)
  ELSE Pass

\* val <= 0 in place of val < 0
IsNegative_OrZero(val) == FloatLe(val, Num(0))

\* val < 0 of the numeric-field loop
IsNegative(val) == FloatLt(val, Num(0))

\* one iteration of the "Validate numeric fields" loop
CheckNumeric(d, f) ==
  IF ~HasKey(d, f) THEN Pass
  ELSE LET r == PyFloat(d.row[f]) IN
       IF r.exc # "" THEN Fail("Field must be numeric", f)
       ELSE IF IsNegative(r.val) THEN Fail("Field must be non-negative", f)
       ELSE Pass

\* 0.0 <= val < 1.0 in place of 0.0 <= val <= 1.0
InUnitRange_OpenAbove(val) == FloatLe(Num(0), val) /\ FloatLt(val, Num(1000))

\* 0.0 <= val <= 1.0 of the data-quality loop
InUnitRange(val) == FloatLe(Num(0), val) /\ FloatLe(val, Num(1000))

\* the data-quality loop without its "if field in input_data" guard
CheckDQ_NoGuard(d, f) ==
  IF ~HasKey(d, f) THEN Fail("DQ field must be numeric", f)
  ELSE LET r == PyFloat(d.row[f]) IN
       IF r.exc # "" THEN Fail("DQ field must be numeric", f)
       ELSE IF ~InUnitRange(r.val) THEN Fail("DQ field must be between 0 and 1", f)
       ELSE Pass

\* one iteration of the "Validate DQ scores" loop
CheckDQ(d, f) ==
  IF ~HasKey(d, f) THEN Pass
  ELSE LET r == PyFloat(d.row[f]) IN
       IF r.exc # "" THEN Fail("DQ field must be numeric", f)
       ELSE IF ~InUnitRange(r.val) THEN Fail("DQ field must be between 0 and 1", f)
       ELSE Pass

\* the first return statement reached: the first failing check, else Valid
RECURSIVE FirstFailure(_)
FirstFailure(checks) ==
  IF checks = <<>> THEN Pass
  ELSE IF ~Head(checks).ok THEN Head(checks)
  ELSE FirstFailure(Tail(checks))

\* the data-quality loop moved in front of the other two
ValidationChecks_DQFirst(d) ==
  [i \in 1..Len(dq_fields) |-> CheckDQ(d, dq_fields[i])]
  \o [i \in 1..Len(required_fields) |-> CheckRequired(d, required_fields[i])]
  \o [i \in 1..Len(numeric_fields) |-> CheckNumeric(d, numeric_fields[i])]

\* the three loops of validate_input_data, in the order they run
ValidationChecks(d) ==
  [i \in 1..Len(required_fields) |-> CheckRequired(d, required_fields[i])]
  \o [i \in 1..Len(numeric_fields) |-> CheckNumeric(d, numeric_fields[i])]
  \o [i \in 1..Len(dq_fields) |-> CheckDQ(d, dq_fields[i])]

validate_input_data(d) == FirstFailure(ValidationChecks(d))

\* the function stores each parsed number back into the record
InputAfterValidate_Coerced(d) ==
  Dict(d.cols,
       [k \in Range(d.cols) |->
          IF k \in Range(numeric_fields) \cup Range(dq_fields)
             /\ PyFloat(d.row[k]).exc = ""
          THEN PyFloat(d.row[k]).val ELSE d.row[k]])

\* the record after validate_input_data(d) returned: the function reads
\* input_data ("in", subscripts, float()) and has no statement that
\* assigns to it or to one of its values
InputAfterValidate(d) == d

----------------------------------------------------------------------------
(* utils/preprocessor.py: preprocess_input *)

expected_columns ==
  << "Substance",
     "Unit",
     "Supply Chain Emission Factors without Margins",
     "Margins of Supply Chain Emission Factors",
     "DQ ReliabilityScore of Factors without Margins",
     "DQ TemporalCorrelation of Factors without Margins",
     "DQ GeographicalCorrelation of Factors without Margins",
     "DQ TechnologicalCorrelation of Factors without Margins",
     "DQ DataCollection of Factors without Margins",
     "Source" >>

categorical_columns == << "Substance", "Unit", "Source" >>

numeric_columns ==
  << "Supply Chain Emission Factors without Margins",
     "Margins of Supply Chain Emission Factors",
     "DQ ReliabilityScore of Factors without Margins",
     "DQ TemporalCorrelation of Factors without Margins",
     "DQ GeographicalCorrelation of Factors without Margins",
     "DQ TechnologicalCorrelation of Factors without Margins",
     "DQ DataCollection of Factors without Margins" >>

\* the list each column's encoder is fitted on, in the order the code writes it
expected_categories(col) ==
  CASE col = "Substance" ->
         << "carbon dioxide", "methane", "nitrous oxide", "other GHGs" >>
    [] col = "Unit" ->
         << "kg/2018 USD, purchaser price", "kg CO2e/2018 USD, purchaser price" >>
    [] col = "Source" ->
         << "Commodity", "Industry" >>

\* the code points of the category strings (what the encoder's sort compares)
Chars(x) ==
  CASE x = "carbon dioxide" ->
         <<99, 97, 114, 98, 111, 110, 32, 100, 105, 111, 120, 105, 100, 101>>
    [] x = "methane" ->
         <<109, 101, 116, 104, 97, 110, 101>>
    [] x = "nitrous oxide" ->
         <<110, 105, 116, 114, 111, 117, 115, 32, 111, 120, 105, 100, 101>>
    [] x = "other GHGs" ->
         <<111, 116, 104, 101, 114, 32, 71, 72, 71, 115>>
    [] x = "kg/2018 USD, purchaser price" ->
         <<107, 103, 47, 50, 48, 49, 56, 32, 85, 83, 68, 44, 32, 112, 117,
           114, 99, 104, 97, 115, 101, 114, 32, 112, 114, 105, 99, 101>>
    [] x = "kg CO2e/2018 USD, purchaser price" ->
         <<107, 103, 32, 67, 79, 50, 101, 47, 50, 48, 49, 56, 32, 85, 83, 68,
           44, 32, 112, 117, 114, 99, 104, 97, 115, 101, 114, 32, 112, 114,
           105, 99, 101>>
    [] x = "Commodity" ->
         <<67, 111, 109, 109, 111, 100, 105, 116, 121>>
    [] x = "Industry" ->
         <<73, 110, 100, 117, 115, 116, 114, 121>>

\* a < b on strings: lexicographic on code points
RECURSIVE SeqLess(_, _)
SeqLess(a, b) ==
  IF b = <<>> THEN FALSE
  ELSE IF a = <<>> THEN TRUE
  ELSE IF Head(a) # Head(b) THEN Head(a) < Head(b)
  ELSE SeqLess(Tail(a), Tail(b))

StrLess(x, y) == SeqLess(Chars(x), Chars(y))

\* LabelEncoder.fit(labels): classes_ is the sorted list of the unique labels
LabelEncoderFit(labels) ==
  LET S == Range(labels)
      Rank(x) == Cardinality({y \in S : StrLess(y, x)}) + 1
  IN  [i \in 1..Cardinality(S) |-> CHOOSE x \in S : Rank(x) = i]

\* LabelEncoder.transform of one label: its index in classes_, or ValueError
\* (code -1) for a label the encoder was not fitted on
LabelEncoderTransform(classes, v) ==
  IF v.kind = "str" /\ v.s \in Range(classes)
  THEN Code((CHOOSE i \in 1..Len(classes) : classes[i] = v.s) - 1)
  ELSE Code(-1)

\* values outside the expected categories are passed to the encoder as is
FillUnseen_Keep(x, categories) == x

\* the lambda of line 61: a value that is not an expected category is
\* replaced by expected_categories[0]
FillUnseen(x, categories) ==
  IF x.kind = "str" /\ x.s \in Range(categories) THEN x ELSE Str(categories[1])

\* le.fit(expected_categories) of line 58, for each categorical column
FittedClasses ==
  [col \in Range(categorical_columns) |-> LabelEncoderFit(expected_categories(col))]

\* the value a categorical cell gets (lines 61-62)
EncodeCell(col, x) ==
  LabelEncoderTransform(FittedClasses[col], FillUnseen(x, expected_categories(col)))

\* the column is cast to whole numbers
ToNumeric_Truncated(v) ==
  CASE v.kind = "num"  -> Num((v.n \div 1000) * 1000)
    [] v.kind \in {"nan", "inf"} -> v
    [] v.kind = "int"  -> Num(v.n * 1000)
    [] v.kind = "str"  -> IF FloatOfStr(v.s).exc = "" THEN FloatOfStr(v.s).val ELSE NaN
    [] v.kind = "none" -> NaN

\* pd.to_numeric(..., errors='coerce') of one cell
ToNumeric(v) ==
  CASE v.kind \in {"num", "nan", "inf"} -> v
    [] v.kind = "int"  -> Num(v.n * 1000)
    [] v.kind = "str"  -> IF FloatOfStr(v.s).exc = "" THEN FloatOfStr(v.s).val ELSE NaN
    [] v.kind = "none" -> NaN

\* the coerced column is not filled
FillNa_Keep(v) == v

\* .fillna(0.0) of one cell
FillNa(v) == IF v.kind = "nan" THEN Num(0) ELSE v

\* the value a numeric cell gets (line 79)
CoerceCell(v) == FillNa(ToNumeric(v))

\* a missing numeric column is created with 1.0
DefaultFor_One(col) ==
  IF col \in Range(categorical_columns) THEN Str("Unknown") ELSE Num(1000)

\* a missing categorical column is created with the last expected category
DefaultFor_LastCategory(col) ==
  IF col \in Range(categorical_columns)
  THEN Str(expected_categories(col)[Len(expected_categories(col))])
  ELSE Num(0)

\* the default a missing column is created with (lines 35-38)
DefaultFor(col) ==
  IF col \in Range(categorical_columns) THEN Str("Unknown") ELSE Num(0)

\* df[col] = value, for a new column: appended as the last column
AddColumn(df, col, v) ==
  [columns |-> Append(df.columns, col),
   rows    |-> [r \in 1..Len(df.rows) |-> (df.rows[r] @@ (col :> v))]]

\* the loop of lines 32-38, from its i-th iteration on
RECURSIVE EnsureColumns(_, _)
EnsureColumns(df, i) ==
  IF i > Len(expected_columns) THEN df
  ELSE LET col == expected_columns[i] IN
       IF col \in Range(df.columns) THEN EnsureColumns(df, i + 1)
       ELSE EnsureColumns(AddColumn(df, col, DefaultFor(col)), i + 1)

\* the encoder numbers the values of the column in their order of appearance
ConvertColumns_FitOnData(df) ==
  [columns |-> df.columns,
   rows    |-> [r \in 1..Len(df.rows) |->
                 [c \in DOMAIN df.rows[r] |->
                    IF c \in Range(categorical_columns)
                    THEN Code(Cardinality({df.rows[q][c] : q \in 1..(r - 1)}
                                            \ {df.rows[r][c]}))
                    ELSE IF c \in Range(numeric_columns)
                    THEN CoerceCell(df.rows[r][c])
                    ELSE df.rows[r][c]]]]

\* the loops of lines 44-64 and 77-79: every cell of a categorical column is
\* encoded, every cell of a numeric column coerced, other columns are kept
ConvertColumns(df) ==
  [columns |-> df.columns,
   rows    |-> [r \in 1..Len(df.rows) |->
                 [c \in DOMAIN df.rows[r] |->
                    IF c \in Range(categorical_columns)
                    THEN EncodeCell(c, df.rows[r][c])
                    ELSE IF c \in Range(numeric_columns)
                    THEN CoerceCell(df.rows[r][c])
                    ELSE df.rows[r][c]]]]

\* df[expected_columns] (line 82): these columns, in this order
SelectColumns(df, cols) ==
  [columns |-> cols,
   rows    |-> [r \in 1..Len(df.rows) |->
                 [c \in Range(cols) |-> df.rows[r][c]]]]

\* the frame returned without the reordering of line 82
ReorderColumns_Skipped(df) == df

\* the columns preprocess_input returns, given the converted frame
ReorderColumns(df) == SelectColumns(df, expected_columns)

\* le.transform raises ValueError on a label outside classes_
TransformRaises(df) ==
  \E r \in 1..Len(df.rows) : \E c \in Range(categorical_columns) :
     c \in DOMAIN df.rows[r] /\ df.rows[r][c] = Code(-1)

\* preprocess_input(frame): the exception raised ("" if none) and the frame
preprocess_input(frame) ==
  LET df == ConvertColumns(EnsureColumns(frame, 1)) IN
  IF TransformRaises(df) THEN [exc |-> "ValueError", df |-> NoFrame]
  ELSE [exc |-> "", df |-> ReorderColumns(df)]

\* the copy is taken after the missing columns were added
ArgAfterPreprocess_AddsColumns(arg) == EnsureColumns(arg, 1)

\* the function works on its argument, not on a copy
ArgAfterPreprocess_NoCopy(arg) == ConvertColumns(EnsureColumns(arg, 1))

\* the caller's DataFrame after preprocess_input(arg) returned: line 15
\* copies the argument and every later statement writes to the copy
ArgAfterPreprocess(arg) == arg

----------------------------------------------------------------------------
(* simple_test.py: its own preprocess_input *)

substance_map ==
  ("carbon dioxide" :> 0) @@ ("methane" :> 1) @@
  ("nitrous oxide" :> 2) @@ ("other GHGs" :> 3)

unit_map ==
  ("kg/2018 USD, purchaser price" :> 0) @@
  ("kg CO2e/2018 USD, purchaser price" :> 1)

source_map == ("Commodity" :> 0) @@ ("Industry" :> 1)

\* the dict applied to each of the three columns (lines 15-17)
CategoryMap(col) ==
  CASE col = "Substance" -> substance_map
    [] col = "Unit" -> unit_map
    [] col = "Source" -> source_map

\* Series.map(dict) of one cell: NaN for a value that is no key of the dict
MapCell(col, x) ==
  IF x.kind = "str" /\ x.s \in DOMAIN CategoryMap(col)
  THEN Code(CategoryMap(col)[x.s]) ELSE NaN

\* expected_columns of simple_test.py (lines 20-31)
simple_expected_columns ==
  << "Substance", "Unit",
     "Supply Chain Emission Factors without Margins",
     "Margins of Supply Chain Emission Factors",
     "DQ ReliabilityScore of Factors without Margins",
     "DQ TemporalCorrelation of Factors without Margins",
     "DQ GeographicalCorrelation of Factors without Margins",
     "DQ TechnologicalCorrelation of Factors without Margins",
     "DQ DataCollection of Factors without Margins",
     "Source" >>

\* preprocess_input of simple_test.py: the three columns are mapped, the
\* others are passed on as they are; df[...] of a column the frame lacks
\* raises KeyError
simple_preprocess_input(arg) ==
  IF \E c \in Range(simple_expected_columns) : c \notin Range(arg.columns)
  THEN [exc |-> "KeyError", df |-> NoFrame]
  ELSE [exc |-> "",
        df  |-> SelectColumns(
                  [columns |-> arg.columns,
                   rows    |-> [r \in 1..Len(arg.rows) |->
                                 [c \in DOMAIN arg.rows[r] |->
                                    IF c \in {"Substance", "Unit", "Source"}
                                    THEN MapCell(c, arg.rows[r][c])
                                    ELSE arg.rows[r][c]]]],
                  simple_expected_columns)]

----------------------------------------------------------------------------
(* Input records.  A record is written as a function from the ten field    *)
(* names to a value or Absent (the key is not in the dict); Scenario1 is   *)
(* the test record of simple_test.py.                                      *)

Absent == [kind |-> "absent", s |-> "", n |-> 0]

Scenario1 ==
  [k \in Range(expected_columns) |->
     CASE k = "Substance" -> Str("carbon dioxide")
       [] k = "Unit" -> Str("kg/2018 USD, purchaser price")
       [] k = "Supply Chain Emission Factors without Margins" -> Num(100)
       [] k = "Margins of Supply Chain Emission Factors" -> Num(10)
       [] k = "Source" -> Str("Industry")
       [] OTHER -> Num(500)]

\* the other values tried for a field
Alternatives(k) ==
  CASE k = "Substance" ->
         << Str("methane"), Str("nitrous oxide"), Str("other GHGs"),
            Str("xenon"), None, Absent >>
    [] k = "Unit" ->
         << Str("kg CO2e/2018 USD, purchaser price"), Str("litre"), None, Absent >>
    [] k = "Source" ->
         << Str("Commodity"), Str("Household"), None, Absent >>
    [] k \in Range(numeric_fields) ->
         << Num(-1000), Num(0), Str("abc"), Str("0.5"), None, NaN, PosInf, Absent >>
    [] OTHER ->
         << Num(-100), Num(0), Num(1000), Num(1500), Str("abc"), None, NaN, Absent >>

\* every change of one field: the field's position and its new value
RECURSIVE ChangesFrom(_)
ChangesFrom(i) ==
  IF i > Len(expected_columns) THEN <<>>
  ELSE [j \in 1..Len(Alternatives(expected_columns[i])) |->
          [pos |-> i, val |-> Alternatives(expected_columns[i])[j]]]
       \o ChangesFrom(i + 1)

ChangeList == ChangesFrom(1)

\* the number of fields in which a test record may differ from Scenario1
MaxChanges == 2

\* a choice of at most MaxChanges changes (0 is no change), of different
\* fields, each choice listed once
ChangeChoices ==
  {ix \in [1..MaxChanges -> 0..Len(ChangeList)] :
     \A i \in 2..MaxChanges :
        ix[i - 1] # 0 => /\ ix[i] # 0
                         /\ ChangeList[ix[i - 1]].pos < ChangeList[ix[i]].pos}

\* the record c after the changes ix[i], ix[i+1], ...
RECURSIVE ApplyChanges(_, _, _)
ApplyChanges(c, ix, i) ==
  IF i > MaxChanges THEN c
  ELSE IF ix[i] = 0 THEN ApplyChanges(c, ix, i + 1)
  ELSE ApplyChanges(
         [c EXCEPT ![expected_columns[ChangeList[ix[i]].pos]] = ChangeList[ix[i]].val],
         ix, i + 1)

\* Scenario1 without any subset of the optional data-quality keys
Sparse ==
  {[k \in Range(expected_columns) |-> IF k \in A THEN Absent ELSE Scenario1[k]] :
     A \in SUBSET Range(dq_fields)}

\* key orders of the input dict: the documented order, and the reverse order
\* with a key the pipeline does not know
KeyOrders ==
  { expected_columns,
    << "Source", "Year",
       "DQ DataCollection of Factors without Margins",
       "DQ TechnologicalCorrelation of Factors without Margins",
       "DQ GeographicalCorrelation of Factors without Margins",
       "DQ TemporalCorrelation of Factors without Margins",
       "DQ ReliabilityScore of Factors without Margins",
       "Margins of Supply Chain Emission Factors",
       "Supply Chain Emission Factors without Margins",
       "Unit", "Substance" >> }

\* the dict with the present keys of c, inserted in the given order
DictOf(c, order) ==
  LET Present(k) == k \notin DOMAIN c \/ c[k] # Absent
      cols == SelectSeq(order, Present)
  IN  Dict(cols, [k \in Range(cols) |-> IF k \in DOMAIN c THEN c[k] ELSE Num(2018000)])

----------------------------------------------------------------------------
(* app.py: the prediction form and the submission handler.                 *)
(* A script run is a sequence of steps; pc is the statement it is at:      *)
(*   "start"      the process has started, no script run yet               *)
(*   "halted"     st.stop() at the top of the script: failed import or     *)
(*                failed artifact load, no form                            *)
(*   "form"       the script has rendered the form and no result (idle)    *)
(*   "validate"   submit pressed, input_data built, about to validate      *)
(*   "preprocess", "scale", "predict", "render"   inside the try block     *)
(*   "done"       results rendered (idle)                                  *)
(*   "stopped"    st.stop() after a validation error (idle)                *)
(*   "failed"     an exception was caught by the handler (idle)            *)
(*   "uncaught"   an exception left the handler, traceback shown (idle)    *)

Selectboxes == {"substance", "source", "unit"}
NumberInputs == {"supply_wo_margin", "margin"}
Sliders == {"dq_reliability", "dq_temporal", "dq_geo", "dq_tech", "dq_data"}

\* the options of each st.selectbox
Options(w) ==
  CASE w = "substance" ->
         << "carbon dioxide", "methane", "nitrous oxide", "other GHGs" >>
    [] w = "source" -> << "Commodity", "Industry" >>
    [] w = "unit" ->
         << "kg/2018 USD, purchaser price", "kg CO2e/2018 USD, purchaser price" >>

\* st.number_input(min_value=0.0, value=...)
NumberMinValue == 0
SupplyDefault == 50
MarginDefault == 5

\* st.slider(label, 0.0, 1.0, 0.8, 0.1)
SliderMin == 0
SliderMax == 1000
SliderDefault == 800
SliderStep == 100

\* the sliders reach one step beyond both ends
SliderValues_Wider ==
  {x \in (SliderMin - SliderStep)..(SliderMax + SliderStep) :
     (x - SliderMin) % SliderStep = 0}

\* the positions a slider can be put at
SliderValues ==
  {x \in SliderMin..SliderMax : (x - SliderMin) % SliderStep = 0}

\* the numbers a user types into a number input
TypedNumbers == {-1000, 0, 10, 100}

\* number of widget changes a user makes in one session
MaxEdits == 1

\* the widget values of the first script run
DefaultWidgets ==
  [w \in Selectboxes \cup NumberInputs \cup Sliders |->
     CASE w \in Selectboxes -> Str(Options(w)[1])
       [] w = "supply_wo_margin" -> Num(SupplyDefault)
       [] w = "margin" -> Num(MarginDefault)
       [] OTHER -> Num(SliderDefault)]

\* the input_data dict of lines 1124-1135
BuildInputData_NoCollection(w) ==
  Dict(<< "Substance", "Unit",
          "Supply Chain Emission Factors without Margins",
          "Margins of Supply Chain Emission Factors",
          "DQ ReliabilityScore of Factors without Margins",
          "DQ TemporalCorrelation of Factors without Margins",
          "DQ GeographicalCorrelation of Factors without Margins",
          "DQ TechnologicalCorrelation of Factors without Margins",
          "Source" >>,
       ("Substance" :> w["substance"]) @@
       ("Unit" :> w["unit"]) @@
       ("Supply Chain Emission Factors without Margins" :> w["supply_wo_margin"]) @@
       ("Margins of Supply Chain Emission Factors" :> w["margin"]) @@
       ("DQ ReliabilityScore of Factors without Margins" :> w["dq_reliability"]) @@
       ("DQ TemporalCorrelation of Factors without Margins" :> w["dq_temporal"]) @@
       ("DQ GeographicalCorrelation of Factors without Margins" :> w["dq_geo"]) @@
       ("DQ TechnologicalCorrelation of Factors without Margins" :> w["dq_tech"]) @@
       ("Source" :> w["source"]))

BuildInputData(w) ==
  Dict(<< "Substance", "Unit",
          "Supply Chain Emission Factors without Margins",
          "Margins of Supply Chain Emission Factors",
          "DQ ReliabilityScore of Factors without Margins",
          "DQ TemporalCorrelation of Factors without Margins",
          "DQ GeographicalCorrelation of Factors without Margins",
          "DQ TechnologicalCorrelation of Factors without Margins",
          "DQ DataCollection of Factors without Margins",
          "Source" >>,
       ("Substance" :> w["substance"]) @@
       ("Unit" :> w["unit"]) @@
       ("Supply Chain Emission Factors without Margins" :> w["supply_wo_margin"]) @@
       ("Margins of Supply Chain Emission Factors" :> w["margin"]) @@
       ("DQ ReliabilityScore of Factors without Margins" :> w["dq_reliability"]) @@
       ("DQ TemporalCorrelation of Factors without Margins" :> w["dq_temporal"]) @@
       ("DQ GeographicalCorrelation of Factors without Margins" :> w["dq_geo"]) @@
       ("DQ TechnologicalCorrelation of Factors without Margins" :> w["dq_tech"]) @@
       ("DQ DataCollection of Factors without Margins" :> w["dq_data"]) @@
       ("Source" :> w["source"]))

\* the handler never calls st.stop()
StopOnInvalid_Never(res) == FALSE

\* "if not is_valid: st.error(...); st.stop()" (lines 1141-1143)
StopOnInvalid(res) == ~res.ok

\* the values the opaque regression model may return (thousandths)
PredictionValues == {-20, 50, 70, 100, 120}

\* the array scaler.transform returns: one row, positions for column names,
\* each value marked as transformed by the opaque scaler
ScaledArray(df) ==
  [columns |-> <<>>,
   rows    |-> [r \in 1..Len(df.rows) |->
                 [i \in 1..Len(df.columns) |->
                    [kind |-> "scaled", s |-> "",
                     n |-> df.rows[r][df.columns[i]].n]]]]

\* joblib.load(path): the exception it raises, "" when it returns the object
JoblibLoad(state) ==
  CASE state = "ok"      -> ""
    [] state = "missing" -> "FileNotFoundError"
    [] OTHER             -> "Exception"

\* what an artifact file can be: a good pickle, absent, or unreadable
FileStates == {"ok", "missing", "corrupt"}

\* model, scaler, models_loaded before line 44 has run
Unassigned ==
  [model |-> "", scaler |-> "", models_loaded |-> FALSE, msg |-> ""]

\* the body of load_models (lines 32-42): the first joblib.load that raises
\* ends the try block; msg is the st.error the body shows
LoadModelsBody(f) ==
  LET e == IF JoblibLoad(f.model) # "" THEN JoblibLoad(f.model)
           ELSE JoblibLoad(f.scaler)
  IN  CASE e = "" ->
             [model |-> "LR_model", scaler |-> "scaler",
              models_loaded |-> TRUE, msg |-> ""]
        [] e = "FileNotFoundError" ->
             [model |-> "None", scaler |-> "None",
              models_loaded |-> FALSE, msg |-> "Model files not found"]
        [] OTHER ->
             [model |-> "None", scaler |-> "None",
              models_loaded |-> FALSE, msg |-> "Error loading models"]

EmptyCache == [hit |-> FALSE, value |-> Unassigned]

\* load_models is not cached
CacheHit_Never(c) == FALSE

\* @st.cache_resource: the stored return value is reused
CacheHit(c) == c.hit

\* load_models() as decorated: the value returned, the cache afterwards and
\* whether the body ran
load_models(c, f) ==
  IF CacheHit(c)
  THEN [value |-> c.value, cache |-> c, ran |-> 0]
  ELSE LET v == LoadModelsBody(f) IN
       [value |-> v, cache |-> [hit |-> TRUE, value |-> v], ran |-> 1]

\* executions of the body are counted up to MaxLoads
MaxLoads == 2

\* the script never stops on a failed load
StopIfNotLoaded_Never(a) == FALSE

\* "if not models_loaded: st.stop()" (lines 46-47)
StopIfNotLoaded(a) == ~a.models_loaded

\* lines 44-47, at the top of every script run
LoadAtTop ==
  LET r == load_models(cache, files) IN
  /\ cache' = r.cache
  /\ artifacts' = r.value
  /\ loads' = IF loads + r.ran > MaxLoads THEN MaxLoads ELSE loads + r.ran
  /\ UNCHANGED files

\* the results of the previous run stay in the new run
FreshRun_KeepsResults ==
  /\ validation' = NoResult
  /\ input_scaled' = NoFrame
  /\ error' = ""
  /\ calls' = <<>>
  /\ UNCHANGED <<input_df, prediction, impact_level>>

\* the results of the previous run are gone
FreshRun ==
  /\ validation' = NoResult
  /\ input_df' = NoFrame
  /\ input_scaled' = NoFrame
  /\ prediction' = NoValue
  /\ error' = ""
  /\ calls' = <<>>
  /\ impact_level' = ""

\* "except ImportError: st.error(...); st.stop()" (lines 7-11)
StopOnImportError(f) == f.preprocessor # "ok"

\* st.stop() at line 11 or 47: the run ends with only the error on the page
Halt(message) ==
  /\ input_data' = Dict(<<>>, <<>>)
  /\ shown' = {message}
  /\ pc' = "halted"

\* the classes "except Exception" does not catch derive from BaseException
\* only; every exception raised in the try block is one of ExceptionClasses
ExceptionClasses ==
  {"Exception", "ValueError", "TypeError", "AttributeError", "KeyError"}

\* the handler catches ValueError only
HandlerCatches_OnlyValueError(exc) == exc = "ValueError"

\* "except Exception as e" (line 1282)
HandlerCatches(exc) == exc \in ExceptionClasses

\* the except branch renders nothing
CaughtOutput_Silent == {}

\* st.error and st.info of the except branch (lines 1283-1284)
CaughtOutput == {"prediction_error", "info"}

\* the order in which a run renders its results (lines 1151-1280)
RenderOrder == << "prediction", "impact", "charts", "recommendations" >>

\* the first k results
Rendered(k) == {RenderOrder[i] : i \in 1..k}

\* the thresholds of the impact level, in thousandths
HighAbove == 100
MediumAbove == 50

\* the comparisons are inclusive
ImpactLevel_Inclusive(p) ==
  IF FloatLe(Num(HighAbove), p) THEN "High"
  ELSE IF FloatLe(Num(MediumAbove), p) THEN "Medium"
  ELSE "Low"

\* lines 1165-1170
ImpactLevel(p) ==
  IF FloatLt(Num(HighAbove), p) THEN "High"
  ELSE IF FloatLt(Num(MediumAbove), p) THEN "Medium"
  ELSE "Low"

Idle == pc \in {"form", "done", "stopped", "failed", "uncaught"}

\* observer of the session: what the run that just ended was given and
\* produced; it is kept only where earlier.watched is set
Snapshot ==
  [watched |-> TRUE, record |-> input_data, prediction |-> prediction,
   impact |-> impact_level]

NoEarlier ==
  [watched |-> TRUE, record |-> Dict(<<>>, <<>>), prediction |-> NoValue,
   impact |-> ""]

Unwatched == [NoEarlier EXCEPT !.watched = FALSE]

\* one run of the script from its first line to the form (lines 1-1121)
\* and, when the submit button was pressed, to "if submit:" and the
\* input_data dict of lines 1122-1135
RunScript(submit) ==
  /\ FreshRun
  /\ IF StopOnImportError(files)
     THEN Halt("import_error") /\ UNCHANGED startup
     ELSE /\ LoadAtTop
          /\ IF StopIfNotLoaded(artifacts')
             THEN Halt("load_error")
             ELSE /\ input_data' = IF submit THEN BuildInputData(widgets)
                                   ELSE Dict(<<>>, <<>>)
                  /\ shown' = {}
                  /\ pc' = IF submit THEN "validate" ELSE "form"
  /\ earlier' = IF earlier.watched /\ input_data.cols # <<>>
                THEN Snapshot ELSE earlier
  /\ UNCHANGED <<widgets, edits, caller_df, input_df2>>

\* the first script run of the process
Start ==
  /\ pc = "start"
  /\ RunScript(FALSE)

\* the user picks an option of a selectbox in the form
Select(w, v) ==
  /\ pc = "form"
  /\ edits < MaxEdits
  /\ w \in Selectboxes
  /\ v \in Range(Options(w))
  /\ widgets[w] # Str(v)
  /\ widgets' = [widgets EXCEPT ![w] = Str(v)]
  /\ edits' = edits + 1
  /\ UNCHANGED <<pc, input_data, validation, input_df, input_scaled,
                 prediction, error, calls, shown, impact_level, startup, earlier,
                 caller_df, input_df2>>

\* the user types a number into a number input; the widget takes no value
\* below its min_value
TypeNumber(w, x) ==
  /\ pc = "form"
  /\ edits < MaxEdits
  /\ w \in NumberInputs
  /\ x >= NumberMinValue
  /\ widgets[w] # Num(x)
  /\ widgets' = [widgets EXCEPT ![w] = Num(x)]
  /\ edits' = edits + 1
  /\ UNCHANGED <<pc, input_data, validation, input_df, input_scaled,
                 prediction, error, calls, shown, impact_level, startup, earlier,
                 caller_df, input_df2>>

\* the user moves a slider
Slide(w, x) ==
  /\ pc = "form"
  /\ edits < MaxEdits
  /\ w \in Sliders
  /\ x \in SliderValues
  /\ widgets[w] # Num(x)
  /\ widgets' = [widgets EXCEPT ![w] = Num(x)]
  /\ edits' = edits + 1
  /\ UNCHANGED <<pc, input_data, validation, input_df, input_scaled,
                 prediction, error, calls, shown, impact_level, startup, earlier,
                 caller_df, input_df2>>

\* the submit button: a new script run with submit = True
Submit ==
  /\ Idle
  /\ RunScript(TRUE)

\* a script rerun without submit (the "else" branch: the welcome message)
Rerun ==
  /\ pc \in {"done", "stopped", "failed", "uncaught", "halted"}
  /\ RunScript(FALSE)

\* lines 1139-1143: validate, and on failure show the message and stop.
\* st.stop() ends the run by raising Streamlit's StopException, a
\* BaseException: the handler's "except Exception" does not catch it.
Validate ==
  /\ pc = "validate"
  /\ validation' = validate_input_data(input_data)
  /\ input_data' = InputAfterValidate(input_data)
  /\ calls' = Append(calls, [fn |-> "validate_input_data", arg |-> input_data])
  /\ IF StopOnInvalid(validation')
     THEN shown' = shown \cup {"validation_error"} /\ pc' = "stopped"
     ELSE shown' = shown /\ pc' = "preprocess"
  /\ UNCHANGED <<widgets, edits, input_df, input_scaled, prediction, error,
                 impact_level, startup, earlier, caller_df, input_df2>>

\* an exception raised in the try block after part was rendered: the except
\* branch shows its messages; an exception it does not catch leaves the
\* script and Streamlit shows the traceback
CaughtAfter(exc, part) ==
  /\ error' = exc
  /\ IF HandlerCatches(exc)
     THEN shown' = shown \cup part \cup CaughtOutput /\ pc' = "failed"
     ELSE shown' = shown \cup part \cup {"traceback"} /\ pc' = "uncaught"

\* an exception raised before anything of the result was rendered
Caught(exc) == CaughtAfter(exc, {})

\* line 1146: input_df = preprocess_input(pd.DataFrame([input_data]))
Preprocess ==
  /\ pc = "preprocess"
  /\ calls' = Append(calls, [fn |-> "preprocess_input", arg |-> input_data])
  /\ LET r == preprocess_input(DataFrameOf(input_data)) IN
       IF r.exc # ""
       THEN Caught(r.exc) /\ UNCHANGED input_df
       ELSE input_df' = r.df /\ pc' = "scale" /\ UNCHANGED <<error, shown>>
  /\ UNCHANGED <<widgets, edits, input_data, validation, input_scaled,
                 prediction, impact_level, startup, earlier, caller_df, input_df2>>

\* line 1147: input_scaled = scaler.transform(input_df); the scaler is opaque
\* and may raise; None has no transform
Scale ==
  /\ pc = "scale"
  /\ calls' = Append(calls, [fn |-> "scaler.transform", arg |-> input_df])
  /\ \/ /\ artifacts.scaler # "None"
        /\ input_scaled' = ScaledArray(input_df)
        /\ pc' = "predict"
        /\ UNCHANGED <<error, shown>>
     \/ /\ Caught(IF artifacts.scaler = "None" THEN "AttributeError"
                  ELSE "Exception")
        /\ UNCHANGED input_scaled
  /\ UNCHANGED <<widgets, edits, input_data, validation, input_df, prediction,
                 impact_level, startup, earlier, caller_df, input_df2>>

\* lines 1148-1149: prediction = model.predict(input_scaled); the model is
\* opaque and may raise; None has no predict
Predict ==
  /\ pc = "predict"
  /\ calls' = Append(calls, [fn |-> "model.predict", arg |-> input_scaled])
  /\ \/ /\ artifacts.model # "None"
        /\ \E p \in PredictionValues : prediction' = Num(p)
        /\ pc' = "render"
        /\ UNCHANGED <<error, shown>>
     \/ /\ Caught(IF artifacts.model = "None" THEN "AttributeError"
                  ELSE "Exception")
        /\ UNCHANGED prediction
  /\ UNCHANGED <<widgets, edits, input_data, validation, input_df,
                 input_scaled, impact_level, startup, earlier, caller_df, input_df2>>

\* lines 1151-1280: the prediction box, the impact level, the charts and the
\* recommendations, in this order and inside the try block: a statement
\* among them may raise after the first k results were rendered
Render ==
  /\ pc = "render"
  /\ \/ /\ shown' = shown \cup Rendered(Len(RenderOrder))
        /\ impact_level' = ImpactLevel(prediction)
        /\ pc' = "done"
        /\ UNCHANGED error
     \/ \E k \in 0..(Len(RenderOrder) - 1) :
          /\ CaughtAfter("Exception", Rendered(k))
          /\ impact_level' = IF k >= 2 THEN ImpactLevel(prediction) ELSE ""
  /\ UNCHANGED <<widgets, edits, input_data, validation, input_df,
                 input_scaled, prediction, calls, startup, earlier, caller_df, input_df2>>

Init ==
  /\ pc = "start"
  /\ \E m \in FileStates : \E sc \in FileStates :
       \E pp \in {"ok", "missing"} :
          files = [model |-> m, scaler |-> sc, preprocessor |-> pp]
  /\ cache = EmptyCache
  /\ loads = 0
  /\ artifacts = Unassigned
  /\ impact_level = ""
  /\ caller_df = NoFrame
  /\ input_df2 = NoFrame
  /\ earlier = Unwatched
  /\ widgets = DefaultWidgets
  /\ edits = 0
  /\ input_data = Dict(<<>>, <<>>)
  /\ validation = NoResult
  /\ input_df = NoFrame
  /\ input_scaled = NoFrame
  /\ prediction = NoValue
  /\ error = ""
  /\ calls = <<>>
  /\ shown = {}

Next ==
  \/ Start
  \/ \E w \in Selectboxes : \E v \in Range(Options(w)) : Select(w, v)
  \/ \E w \in NumberInputs : \E x \in TypedNumbers : TypeNumber(w, x)
  \/ \E w \in Sliders : \E x \in SliderValues : Slide(w, x)
  \/ Submit
  \/ Rerun
  \/ Validate
  \/ Preprocess
  \/ Scale
  \/ Predict
  \/ Render

Spec == Init /\ [][Next]_vars

----------------------------------------------------------------------------
(* SpecHandler: the body of "if submit:" run on a record of ten keys whose *)
(* values are not restricted to what the widgets produce                   *)

InitHandler ==
  /\ pc = "validate"
  /\ \E ix \in ChangeChoices :
       /\ \A i \in 1..MaxChanges : ix[i] # 0 => ChangeList[ix[i]].val # Absent
       /\ input_data = DictOf(ApplyChanges(Scenario1, ix, 1), expected_columns)
  /\ files = [model |-> "ok", scaler |-> "ok", preprocessor |-> "ok"]
  /\ cache = [hit |-> TRUE, value |-> LoadModelsBody(files)]
  /\ loads = 1
  /\ artifacts = cache.value
  /\ impact_level = ""
  /\ caller_df = NoFrame
  /\ input_df2 = NoFrame
  /\ earlier = Unwatched
  /\ widgets = <<>>
  /\ edits = 0
  /\ validation = NoResult
  /\ input_df = NoFrame
  /\ input_scaled = NoFrame
  /\ prediction = NoValue
  /\ error = ""
  /\ calls = <<>>
  /\ shown = {}

NextHandler ==
  \/ Validate
  \/ Preprocess
  \/ Scale
  \/ Predict
  \/ Render

SpecHandler == InitHandler /\ [][NextHandler]_vars

----------------------------------------------------------------------------
(* SpecSession: a session of several submissions with both artifacts       *)
(* loaded, observed in earlier; the user changes the substance and the     *)
(* data-collection slider between submissions                              *)

InitSession ==
  /\ pc = "start"
  /\ files = [model |-> "ok", scaler |-> "ok", preprocessor |-> "ok"]
  /\ cache = EmptyCache
  /\ loads = 0
  /\ artifacts = Unassigned
  /\ impact_level = ""
  /\ caller_df = NoFrame
  /\ input_df2 = NoFrame
  /\ earlier = NoEarlier
  /\ widgets = DefaultWidgets
  /\ edits = 0
  /\ input_data = Dict(<<>>, <<>>)
  /\ validation = NoResult
  /\ input_df = NoFrame
  /\ input_scaled = NoFrame
  /\ prediction = NoValue
  /\ error = ""
  /\ calls = <<>>
  /\ shown = {}

NextSession ==
  \/ Start
  \/ \E v \in Range(Options("substance")) : Select("substance", v)
  \/ \E x \in {SliderMin, SliderMax} : Slide("dq_data", x)
  \/ Submit
  \/ Rerun
  \/ Validate
  \/ Preprocess
  \/ Scale
  \/ Predict
  \/ Render

SpecSession == InitSession /\ [][NextSession]_vars

----------------------------------------------------------------------------
(* SpecFn: the two functions of utils/preprocessor.py called on a record   *)

InitFn ==
  /\ pc = "input"
  /\ \E o \in KeyOrders :
       \/ \E ix \in ChangeChoices :
            input_data = DictOf(ApplyChanges(Scenario1, ix, 1), o)
       \/ \E c \in Sparse : input_data = DictOf(c, o)
  /\ widgets = <<>>
  /\ edits = 0
  /\ validation = NoResult
  /\ input_df = NoFrame
  /\ input_scaled = NoFrame
  /\ prediction = NoValue
  /\ error = ""
  /\ calls = <<>>
  /\ shown = {}
  /\ impact_level = ""
  /\ files = [model |-> "ok", scaler |-> "ok", preprocessor |-> "ok"]
  /\ cache = EmptyCache
  /\ loads = 0
  /\ artifacts = Unassigned
  /\ caller_df = NoFrame
  /\ input_df2 = NoFrame
  /\ earlier = Unwatched

\* is_valid, error_msg = validate_input_data(input_data)
FnValidate ==
  /\ pc = "input"
  /\ validation' = validate_input_data(input_data)
  /\ input_data' = InputAfterValidate(input_data)
  /\ calls' = Append(calls, [fn |-> "validate_input_data", arg |-> input_data])
  /\ pc' = "validated"
  /\ UNCHANGED <<widgets, edits, input_df, input_scaled,
                 prediction, error, shown, impact_level, startup, earlier,
                 caller_df, input_df2>>

\* input_df = preprocess_input(pd.DataFrame([input_data]))
FnPreprocess ==
  /\ pc = "validated"
  /\ LET r == preprocess_input(DataFrameOf(input_data)) IN
       /\ input_df' = r.df
       /\ error' = r.exc
  /\ caller_df' = ArgAfterPreprocess(DataFrameOf(input_data))
  /\ calls' = Append(calls, [fn |-> "preprocess_input", arg |-> input_data])
  /\ pc' = "preprocessed"
  /\ UNCHANGED <<widgets, edits, input_data, validation, input_scaled,
                 prediction, shown, impact_level, startup, earlier, input_df2>>

\* a second preprocess_input call on the same DataFrame object
FnPreprocessAgain ==
  /\ pc = "preprocessed"
  /\ input_df2' = preprocess_input(caller_df).df
  /\ caller_df' = ArgAfterPreprocess(caller_df)
  /\ calls' = Append(calls, [fn |-> "preprocess_input", arg |-> input_data])
  /\ pc' = "again"
  /\ UNCHANGED <<widgets, edits, input_data, validation, input_df,
                 input_scaled, prediction, error, shown, impact_level,
                 startup, earlier>>

NextFn == FnValidate \/ FnPreprocess \/ FnPreprocessAgain

SpecFn == InitFn /\ [][NextFn]_vars

----------------------------------------------------------------------------
(* Properties of the two functions, checked under SpecFn *)

Validated    == pc \in {"validated", "preprocessed", "again"}
Preprocessed == pc = "preprocessed"

\* the value of field f in the input record
In(f) == input_data.row[f]

\* the documented code tables of the three categorical fields
DocumentedCode ==
  [col \in {"Substance", "Unit", "Source"} |->
     CASE col = "Substance" ->
            ("carbon dioxide" :> 0) @@ ("methane" :> 1) @@
            ("nitrous oxide" :> 2) @@ ("other GHGs" :> 3)
       [] col = "Unit" ->
            ("kg/2018 USD, purchaser price" :> 0) @@
            ("kg CO2e/2018 USD, purchaser price" :> 1)
       [] col = "Source" ->
            ("Commodity" :> 0) @@ ("Industry" :> 1)]

InVocabulary(col, v) == v.kind = "str" /\ v.s \in DOMAIN DocumentedCode[col]

\* the fixed column order of the feature vector
FeatureOrder ==
  << "Substance", "Unit",
     "Supply Chain Emission Factors without Margins",
     "Margins of Supply Chain Emission Factors",
     "DQ ReliabilityScore of Factors without Margins",
     "DQ TemporalCorrelation of Factors without Margins",
     "DQ GeographicalCorrelation of Factors without Margins",
     "DQ TechnologicalCorrelation of Factors without Margins",
     "DQ DataCollection of Factors without Margins",
     "Source" >>

RequiredKeys ==
  {"Substance", "Unit", "Supply Chain Emission Factors without Margins",
   "Margins of Supply Chain Emission Factors", "Source"}

NumericKeys ==
  {"Supply Chain Emission Factors without Margins",
   "Margins of Supply Chain Emission Factors"}

DQKeys ==
  {"DQ ReliabilityScore of Factors without Margins",
   "DQ TemporalCorrelation of Factors without Margins",
   "DQ GeographicalCorrelation of Factors without Margins",
   "DQ TechnologicalCorrelation of Factors without Margins",
   "DQ DataCollection of Factors without Margins"}

\* how a value reads as a number
Unparseable(v)  == PyFloat(v).exc # ""
NegativeNumber(v) ==
  /\ PyFloat(v).exc = ""
  /\ PyFloat(v).val.kind \in {"num", "inf"}
  /\ PyFloat(v).val.n < 0
NonNegativeNumber(v) ==
  /\ PyFloat(v).exc = ""
  /\ PyFloat(v).val.kind \in {"num", "inf"}
  /\ PyFloat(v).val.n >= 0
WithinUnitInterval(v) ==
  /\ PyFloat(v).exc = ""
  /\ PyFloat(v).val.kind = "num"
  /\ PyFloat(v).val.n >= 0
  /\ PyFloat(v).val.n <= 1000

\* the input record is Scenario1 except, possibly, in field f
OnlyDiffersIn(f) ==
  \A g \in Range(expected_columns) \ {f} :
     HasKey(input_data, g) /\ In(g) = Scenario1[g]

PresenceMessages == {"Missing required field", "Field cannot be None"}
NumericMessages  == {"Field must be numeric", "Field must be non-negative"}
DQMessages       == {"DQ field must be numeric", "DQ field must be between 0 and 1"}

\* C1 (as claimed): every vocabulary value of Substance, Unit and Source is
\* encoded by preprocess_input to its documented integer code.
C1_DocumentedCodes ==
  Preprocessed =>
    \A col \in DOMAIN DocumentedCode :
       (HasKey(input_data, col) /\ InVocabulary(col, In(col))) =>
          /\ error = ""
          /\ input_df.rows[1][col] = Code(DocumentedCode[col][In(col).s])

\* C2 (as claimed): a value outside the vocabulary of its categorical field is
\* encoded to 0 and preprocess_input raises nothing.
C2_UnseenEncodesToZero ==
  Preprocessed =>
    \A col \in DOMAIN DocumentedCode :
       (HasKey(input_data, col) /\ ~InVocabulary(col, In(col))) =>
          /\ error = ""
          /\ input_df.rows[1][col] = Code(0)

\* C3: the frame preprocess_input returns has exactly the ten feature columns
\* in the fixed order, whatever the key order of the input and whatever extra
\* keys it carries.
C3_TenColumnsFixedOrder ==
  Preprocessed =>
    /\ error = ""
    /\ input_df.columns = FeatureOrder
    /\ Len(input_df.columns) = 10
    /\ \A r \in 1..Len(input_df.rows) : DOMAIN input_df.rows[r] = Range(FeatureOrder)

C3_Witness ==
  /\ Preprocessed
  /\ HasKey(input_data, "Year")
  /\ input_data.cols[1] = "Source"
  /\ input_df.columns = FeatureOrder

\* C4: a record in which a required key is absent or None is rejected, and the
\* message names one of the offending fields.
C4_MissingRequiredRejected ==
  Validated =>
    LET bad == {f \in RequiredKeys : ~HasKey(input_data, f) \/ In(f) = None} IN
      bad # {} =>
        /\ ~validation.ok
        /\ validation.msg \in PresenceMessages
        /\ validation.field \in bad

C4_Witness ==
  /\ Validated
  /\ ~HasKey(input_data, "Source")
  /\ validation = Fail("Missing required field", "Source")

\* C5: a negative or unparseable supply factor or margin is rejected; a
\* non-negative one, 0 included, is never the reason for a rejection, and the
\* record is accepted when its other fields are valid.
C5_NumericSign ==
  Validated =>
    \A f \in NumericKeys :
       HasKey(input_data, f) =>
          /\ (NegativeNumber(In(f)) \/ Unparseable(In(f))) => ~validation.ok
          /\ NonNegativeNumber(In(f)) =>
               /\ validation.field # f
               /\ OnlyDiffersIn(f) => validation = Pass

C5_Witness ==
  /\ Validated
  /\ HasKey(input_data, "Supply Chain Emission Factors without Margins")
  /\ In("Supply Chain Emission Factors without Margins") = Num(0)
  /\ validation = Pass

\* C6: a present data-quality value below 0.0 or above 1.0 is rejected; the
\* boundary values 0.0 and 1.0 are never the reason for a rejection, and the
\* record is accepted when its other fields are valid.
C6_DQRangeInclusive ==
  Validated =>
    \A f \in DQKeys :
       HasKey(input_data, f) =>
          /\ (PyFloat(In(f)).exc = "" /\ PyFloat(In(f)).val.kind \in {"num", "inf"}
              /\ (PyFloat(In(f)).val.n < 0 \/ PyFloat(In(f)).val.n > 1000))
               => ~validation.ok
          /\ In(f) \in {Num(0), Num(1000)} =>
               /\ validation.field # f
               /\ OnlyDiffersIn(f) => validation = Pass

C6_Witness ==
  /\ Validated
  /\ HasKey(input_data, "DQ TemporalCorrelation of Factors without Margins")
  /\ In("DQ TemporalCorrelation of Factors without Margins") = Num(1000)
  /\ validation = Pass

\* the five required fields of the input record are valid
RequiredValid ==
  /\ \A f \in RequiredKeys : HasKey(input_data, f) /\ In(f) # None
  /\ \A f \in NumericKeys : NonNegativeNumber(In(f))

\* C7: with valid required fields, a record passes whichever data-quality
\* keys are absent (the present ones being in range); a data-quality key that
\* is present but None or non-numeric makes validation fail.
C7_OptionalDQ ==
  Validated =>
    /\ (RequiredValid /\ \A f \in DQKeys :
                            HasKey(input_data, f) => WithinUnitInterval(In(f)))
         => validation = Pass
    /\ \A f \in DQKeys :
         (HasKey(input_data, f) /\ Unparseable(In(f))) => ~validation.ok

C7_Witness ==
  /\ Validated
  /\ \A f \in DQKeys : ~HasKey(input_data, f)
  /\ validation = Pass

\* C8: presence checks come before the type/sign checks, and these before
\* the data-quality checks; the one reported outcome is the first failing
\* class, and (True, "Valid") is returned exactly when no check fails.
C8_CheckOrder ==
  Validated =>
    LET missing == {f \in RequiredKeys : ~HasKey(input_data, f) \/ In(f) = None}
        badnum  == {f \in NumericKeys :
                      HasKey(input_data, f)
                      /\ (Unparseable(In(f)) \/ NegativeNumber(In(f)))}
        baddq   == {f \in DQKeys :
                      HasKey(input_data, f) /\ ~WithinUnitInterval(In(f))}
    IN
      /\ missing # {} =>
           validation.msg \in PresenceMessages /\ validation.field \in missing
      /\ (missing = {} /\ badnum # {}) =>
           validation.msg \in NumericMessages /\ validation.field \in badnum
      /\ (missing = {} /\ badnum = {} /\ baddq # {}) =>
           validation.msg \in DQMessages /\ validation.field \in baddq
      /\ validation.ok <=> (missing = {} /\ badnum = {} /\ baddq = {})
      /\ validation.ok <=> validation = Pass

C8_Witness ==
  /\ Validated
  /\ HasKey(input_data, "Supply Chain Emission Factors without Margins")
  /\ HasKey(input_data, "DQ ReliabilityScore of Factors without Margins")
  /\ In("Supply Chain Emission Factors without Margins") = Num(-1000)
  /\ In("DQ ReliabilityScore of Factors without Margins") = Num(1500)
  /\ validation = Fail("Field must be non-negative",
                       "Supply Chain Emission Factors without Margins")

----------------------------------------------------------------------------
(* Properties of the submission pipeline *)

InferenceCalls == {"preprocess_input", "scaler.transform", "model.predict"}

CalledFns == {calls[i].fn : i \in 1..Len(calls)}

\* C9: preprocess_input, scaler.transform and model.predict are called only
\* after validate_input_data returned valid for the same record; after a
\* failed validation the error message is shown, the run has stopped, and
\* there is no inference call and no prediction output.
C9_InferenceOnlyAfterValid ==
  /\ \A i \in 1..Len(calls) :
       calls[i].fn \in InferenceCalls =>
         /\ i > 1
         /\ calls[1].fn = "validate_input_data"
         /\ calls[1].arg = input_data
         /\ validation = Pass
         /\ calls[2] = [fn |-> "preprocess_input", arg |-> calls[1].arg]
  /\ (calls # <<>> /\ ~validation.ok) =>
       /\ pc = "stopped"
       /\ "validation_error" \in shown
       /\ CalledFns = {"validate_input_data"}
       /\ shown \cap {"prediction", "impact", "charts", "recommendations"} = {}
       /\ input_df = NoFrame
       /\ prediction = NoValue

C9_Witness ==
  /\ pc = "stopped"
  /\ calls = << [fn |-> "validate_input_data", arg |-> input_data] >>
  /\ validation = Fail("DQ field must be between 0 and 1",
                       "DQ ReliabilityScore of Factors without Margins")
  /\ shown = {"validation_error"}

\* C10: whenever the pipeline calls preprocess_input, the record has all ten
\* keys, data-quality scores in [0, 1], a non-negative numeric supply factor
\* and margin, and validation has passed; after a validation failure no
\* encoded record exists.
C10_EncodingOnlyOfValidRecords ==
  /\ \A i \in 1..Len(calls) :
       calls[i].fn = "preprocess_input" =>
         LET d == calls[i].arg IN
           /\ validation = Pass
           /\ Len(d.cols) = 10
           /\ \A k \in Range(FeatureOrder) : HasKey(d, k)
           /\ \A k \in {"Substance", "Unit", "Source"} : d.row[k].kind = "str"
           /\ \A k \in NumericKeys : d.row[k].kind = "num" /\ d.row[k].n >= 0
           /\ \A k \in DQKeys :
                d.row[k].kind = "num" /\ d.row[k].n >= 0 /\ d.row[k].n <= 1000
  /\ (calls # <<>> /\ ~validation.ok) =>
       input_df = NoFrame /\ "preprocess_input" \notin CalledFns

C10_Witness ==
  /\ pc = "scale"
  /\ "preprocess_input" \in CalledFns
  /\ input_data.row["Supply Chain Emission Factors without Margins"] = Num(0)
  /\ input_data.row["DQ DataCollection of Factors without Margins"] = Num(800)
  /\ input_df # NoFrame

----------------------------------------------------------------------------
(* Properties of the artifact loading and of the handler's error paths,    *)
(* checked under Spec                                                      *)

LastCall == calls[Len(calls)]

\* scaler.transform or model.predict raised in the current run
InferenceFailed ==
  /\ error # ""
  /\ calls # <<>>
  /\ \/ LastCall.fn = "scaler.transform"
     \/ LastCall.fn = "model.predict" /\ prediction = NoValue

\* the load of an artifact failed
LoadFailed == loads > 0 /\ (files.model # "ok" \/ files.scaler # "ok")

\* the import of utils.preprocessor failed
ImportFailed == pc # "start" /\ files.preprocessor # "ok"

\* C11: if loading the model or the scaler fails (missing file or any other
\* load error), models_loaded is False and the script stops before the form
\* and the pipeline; scaler.transform and model.predict are never called on
\* an unloaded (None) artifact.
C11_NeverServesUnloaded ==
  /\ LoadFailed =>
       /\ ~artifacts.models_loaded
       /\ pc = "halted"
       /\ calls = <<>>
       /\ shown = {"load_error"}
  /\ pc \notin {"start", "halted"} => artifacts.models_loaded
  /\ pc = "halted" => (ImportFailed \/ LoadFailed)
  /\ \A i \in 1..Len(calls) :
       calls[i].fn \in {"scaler.transform", "model.predict"} =>
         /\ artifacts.models_loaded
         /\ artifacts.model # "None"
         /\ artifacts.scaler # "None"

C11_Witness ==
  /\ pc = "halted"
  /\ files = [model |-> "ok", scaler |-> "corrupt", preprocessor |-> "ok"]
  /\ artifacts.scaler = "None"
  /\ ~artifacts.models_loaded
  /\ calls = <<>>

\* C12: a failure raised by scaler.transform or model.predict is caught and
\* shown as an error message, and the run renders no prediction value, no
\* impact label, no chart and no recommendation.
C12_InferenceFailureShowsOnlyError ==
  InferenceFailed =>
    /\ pc = "failed"
    /\ "prediction_error" \in shown
    /\ shown \cap {"prediction", "impact", "charts", "recommendations"} = {}
    /\ impact_level = ""
    /\ prediction = NoValue

C12_Witness ==
  /\ pc = "failed"
  /\ InferenceFailed
  /\ LastCall.fn = "model.predict"
  /\ input_scaled # NoFrame
  /\ shown = {"prediction_error", "info"}

C19_LoadedOnce ==
  /\ loads <= 1
  /\ (pc # "start" /\ ~ImportFailed) =>
       /\ loads = 1
       /\ cache.hit
       /\ artifacts = cache.value
       /\ artifacts.model = (IF LoadFailed THEN "None" ELSE "LR_model")
       /\ artifacts.scaler = (IF LoadFailed THEN "None" ELSE "scaler")

C19_Witness ==
  /\ pc = "done"
  /\ edits = MaxEdits
  /\ loads = 1
  /\ artifacts.models_loaded

\* every exception of a submission is caught and shown, and the next
\* submission can be made
SubmissionErrorsCaught ==
  /\ pc # "uncaught"
  /\ "traceback" \notin shown
  /\ error # "" => pc = "failed" /\ "prediction_error" \in shown
  /\ pc = "failed" => ENABLED Submit

\* C20 (as claimed): every exception raised while a submission is
\* validated, preprocessed, scaled, predicted or rendered is caught by the
\* handler and turned into an error message, the next submission can be
\* made, and only a failed artifact load stops the app.
C20_OnlyLoadFailureStops ==
  /\ SubmissionErrorsCaught
  /\ pc = "halted" <=> LoadFailed

\* C20 (amended): every exception raised while a submission is validated,
\* preprocessed, scaled, predicted or rendered is caught by the handler and
\* turned into an error message, the next submission can be made, and the
\* app is stopped only by a failed artifact load or by a failed import of
\* utils.preprocessor.
C20_ErrorsAreCaught ==
  /\ SubmissionErrorsCaught
  /\ pc = "halted" <=> (ImportFailed \/ LoadFailed)

C20_Witness ==
  /\ pc = "failed"
  /\ error = "Exception"
  /\ prediction # NoValue
  /\ "prediction" \in shown
  /\ "prediction_error" \in shown

----------------------------------------------------------------------------
(* Further properties of the two functions, checked under SpecFn *)

\* the output row of the first preprocess_input call
Out(f) == input_df.rows[1][f]

\* record d with key f added, holding 0.0
WithZero(d, f) == Dict(Append(d.cols, f), d.row @@ (f :> Num(0)))

\* the value reads as NaN
IsNaN(v) == PyFloat(v).exc = "" /\ PyFloat(v).val.kind = "nan"

\* C14: every data-quality field missing from the input has the value 0.0
\* in the output of preprocess_input, and the whole output is the one of the
\* record in which that field was given as 0.0.
C14_MissingDQIsZero ==
  Preprocessed =>
    \A f \in DQKeys :
       ~HasKey(input_data, f) =>
         /\ error = ""
         /\ Out(f) = Num(0)
         /\ input_df = preprocess_input(DataFrameOf(WithZero(input_data, f))).df

C14_Witness ==
  /\ Preprocessed
  /\ ~HasKey(input_data, "DQ TemporalCorrelation of Factors without Margins")
  /\ HasKey(input_data, "DQ ReliabilityScore of Factors without Margins")
  /\ Out("DQ TemporalCorrelation of Factors without Margins") = Num(0)
  /\ Out("DQ ReliabilityScore of Factors without Margins") = Num(500)

\* C15: for a record that validation accepts and whose numeric fields are
\* numbers, the supply factor, the margin and the five data-quality scores
\* are at positions 3 to 9 of the output with the values they have in the
\* record; the scenario-1 record gives 0.1, 0.01, 0.5, 0.5, 0.5, 0.5, 0.5.
C15_NumericPassThrough ==
  (Preprocessed /\ validation = Pass
     /\ \A f \in NumericKeys : ~IsNaN(In(f))) =>
    /\ error = ""
    /\ \A i \in 3..9 :
         /\ input_df.columns[i] = FeatureOrder[i]
         /\ HasKey(input_data, FeatureOrder[i]) =>
              Out(input_df.columns[i]) = PyFloat(In(FeatureOrder[i])).val
    /\ (\A f \in Range(FeatureOrder) :
          HasKey(input_data, f) /\ In(f) = Scenario1[f]) =>
         [i \in 3..9 |-> Out(input_df.columns[i])] =
           [i \in 3..9 |-> IF i = 3 THEN Num(100)
                           ELSE IF i = 4 THEN Num(10) ELSE Num(500)]

C15_Witness ==
  /\ Preprocessed
  /\ validation = Pass
  /\ \A f \in Range(FeatureOrder) : HasKey(input_data, f) /\ In(f) = Scenario1[f]
  /\ Out(input_df.columns[3]) = Num(100)
  /\ Out(input_df.columns[4]) = Num(10)

----------------------------------------------------------------------------
(* Unseen categories in the submission pipeline, checked under SpecHandler *)

\* the record's value of col is a string outside the vocabulary
Unseen(col) ==
  /\ HasKey(input_data, col)
  /\ In(col).kind = "str"
  /\ ~InVocabulary(col, In(col))

\* C17: a Substance, Unit or Source outside the vocabulary is no error:
\* validation does not reject the record for it, preprocess_input raises
\* nothing, the cell gets the code of the first listed category, and the
\* run goes on to scaler.transform.
C17_UnseenIsNotAnError ==
  \A col \in {"Substance", "Unit", "Source"} :
     (Unseen(col) /\ calls # <<>>) =>
       /\ validation.field # col
       /\ (validation.ok /\ pc # "preprocess") =>
            /\ error \notin {"ValueError", "KeyError", "TypeError"}
            /\ input_df # NoFrame
            /\ input_df.rows[1][col] =
                 EncodeCell(col, Str(expected_categories(col)[1]))
            /\ pc \in {"scale", "predict", "render", "done", "failed"}
            /\ pc # "scale" => "scaler.transform" \in CalledFns

C17_Witness ==
  /\ pc = "predict"
  /\ In("Unit") = Str("litre")
  /\ In("Source") = Str("Household")
  /\ validation = Pass
  /\ input_df.rows[1]["Unit"] = Code(1)
  /\ CalledFns = {"validate_input_data", "preprocess_input", "scaler.transform"}

----------------------------------------------------------------------------
(* Independence of submissions, checked under SpecSession *)

InRun == pc \in {"validate", "preprocess", "scale", "predict", "render",
                 "done", "stopped", "failed"}

\* the record of the form as it stands
FormRecord == BuildInputData(widgets)

----------------------------------------------------------------------------
(* Properties of preprocess_input, checked under SpecFn *)

Categorical == {"Substance", "Unit", "Source"}

\* record d with key f holding v (added as the last key if d lacks it)
With(d, f, v) ==
  IF HasKey(d, f) THEN Dict(d.cols, [d.row EXCEPT ![f] = v])
  ELSE Dict(Append(d.cols, f), d.row @@ (f :> v))

\* the frame preprocess_input returns for record d
Encoded(d) == preprocess_input(DataFrameOf(d)).df

C23_ValidationAndPreprocessingAgree ==
  (Preprocessed /\ validation = Pass) =>
    \A f \in NumericKeys : Out(f) = PyFloat(In(f)).val

\* the record has all ten fields and vocabulary values in the three
\* categorical ones
TenFieldsInVocabulary ==
  /\ \A f \in Range(FeatureOrder) : HasKey(input_data, f)
  /\ \A col \in Categorical : InVocabulary(col, In(col))

\* C24 (as claimed): preprocess_input of simple_test.py and preprocess_input
\* of utils/preprocessor.py return the same feature vector for every record
\* with all ten fields and in-vocabulary categorical values.
C24_ImplementationsAgree ==
  (Preprocessed /\ TenFieldsInVocabulary) =>
    LET other == simple_preprocess_input(DataFrameOf(input_data)) IN
      /\ other.exc = ""
      /\ error = ""
      /\ other.df.columns = input_df.columns
      /\ \A f \in Range(FeatureOrder) : other.df.rows[1][f] = Out(f)

\* the value preprocess_input sees in column col
Seen(col) == IF HasKey(input_data, col) THEN In(col) ELSE Str("Unknown")

\* C26: a categorical column missing from the input is encoded as an unseen
\* value of that column is: the output is the one of the record holding
\* 'Unknown' (or any other unseen string) there, and the cell has the code
\* of the first entry of the expected-category list.
C26_MissingCategoricalAsUnseen ==
  Preprocessed =>
    \A col \in Categorical :
       ~HasKey(input_data, col) =>
         /\ error = ""
         /\ input_df = Encoded(With(input_data, col, Str("Unknown")))
         /\ input_df = Encoded(With(input_data, col, Str("xenon")))
         /\ input_df =
              Encoded(With(input_data, col, Str(expected_categories(col)[1])))

C26_Witness ==
  /\ Preprocessed
  /\ ~HasKey(input_data, "Unit")
  /\ ~HasKey(input_data, "Substance")
  /\ Out("Unit") = Code(1)
  /\ Out("Substance") = Code(0)

\* C27: preprocess_input raises nothing on a numeric column whose value is
\* a non-numeric string, None or NaN: the cell is emitted as 0.0 and the
\* output is the one of the record holding 0.0 there.
C27_UnparseableNumericIsZero ==
  Preprocessed =>
    /\ error = ""
    /\ \A f \in Range(numeric_columns) :
         (HasKey(input_data, f) /\ (Unparseable(In(f)) \/ IsNaN(In(f)))) =>
           /\ Out(f) = Num(0)
           /\ input_df = Encoded(With(input_data, f, Num(0)))

C27_Witness ==
  /\ Preprocessed
  /\ HasKey(input_data, "Margins of Supply Chain Emission Factors")
  /\ HasKey(input_data, "DQ GeographicalCorrelation of Factors without Margins")
  /\ In("Margins of Supply Chain Emission Factors") = Str("abc")
  /\ In("DQ GeographicalCorrelation of Factors without Margins") = None
  /\ Out("Margins of Supply Chain Emission Factors") = Num(0)
  /\ Out("DQ GeographicalCorrelation of Factors without Margins") = Num(0)
  /\ Out("Supply Chain Emission Factors without Margins") = Num(100)

\* a row put under the record in the same DataFrame: Substance and Source
\* hold the last expected category, Unit an unseen string
OtherRow ==
  [k \in DOMAIN input_data.row |->
     IF k \in {"Substance", "Source"}
     THEN Str(expected_categories(k)[Len(expected_categories(k))])
     ELSE IF k = "Unit" THEN Str("litre")
     ELSE input_data.row[k]]

\* the DataFrame of the record with a second row under it
TwoRows(other) ==
  [columns |-> input_data.cols, rows |-> << input_data.row, other >>]

\* the place of each expected category in its sorted list, from 0
PlaceInList ==
  [col \in Categorical |->
     [name \in Range(expected_categories(col)) |->
        Cardinality({c \in Range(expected_categories(col)) : StrLess(c, name)})]]

\* the code the fixed expected-category list gives a value: its place in
\* the sorted list, the first entry's place for a value outside the list
ListCode(col, v) ==
  LET cats == expected_categories(col)
      name == IF v.kind = "str" /\ v.s \in Range(cats) THEN v.s ELSE cats[1]
  IN  Code(PlaceInList[col][name])

\* C28: the code of a categorical value depends only on the field and the
\* value: it is the value's place in the fixed expected-category list, the
\* same whatever the other fields are, whatever other row the DataFrame
\* holds, and in a second call.
C28_CodeDependsOnFieldAndValue ==
  /\ Preprocessed =>
       /\ error = ""
       /\ \A col \in Categorical : Out(col) = ListCode(col, Seen(col))
       /\ LET two == preprocess_input(TwoRows(OtherRow)).df.rows IN
            \A col \in Categorical :
               /\ two[1][col] = Out(col)
               /\ two[2][col] =
                    ListCode(col, IF HasKey(input_data, col) THEN OtherRow[col]
                                  ELSE Str("Unknown"))
  /\ pc = "again" =>
       \A col \in Categorical : input_df2.rows[1][col] = Out(col)

C28_Witness ==
  /\ pc = "again"
  /\ HasKey(input_data, "Substance")
  /\ In("Substance") = Str("nitrous oxide")
  /\ Out("Substance") = Code(2)
  /\ input_df2.rows[1]["Substance"] = Code(2)
  /\ ~HasKey(input_data, "DQ DataCollection of Factors without Margins")

----------------------------------------------------------------------------
(* The records of the form, checked under Spec *)

\* C25: every record the form produces passes validation: the handler
\* never shows a validation error and never stops at line 1143.
C25_FormRecordsAreValid ==
  /\ pc # "stopped"
  /\ "validation_error" \notin shown
  /\ calls # <<>> =>
       /\ calls[1] = [fn |-> "validate_input_data", arg |-> input_data]
       /\ validation = Pass
  /\ pc = "form" => validate_input_data(FormRecord) = Pass

C25_Witness ==
  /\ pc = "preprocess"
  /\ validation = Pass
  /\ widgets["margin"] = Num(0)
  /\ widgets["dq_geo"] = Num(SliderDefault)
  /\ input_data = FormRecord

====
